---------------------------- MODULE Spec2Model ----------------------------
(***************************************************************************)
(* A model of ltbnet/network.py: the Network compiler (Network), its       *)
(* record stores (Record and its subclasses) and the link registry (Link). *)
(*                                                                         *)
(* Python values are modelled as tagged records so that None, strings,     *)
(* integers and floats stay distinct: the string 'None' is not the object  *)
(* None.  Floats are held in tenths (1.5 is 15).  An uncaught exception is *)
(* recorded in exc; the program stops where it was raised.                 *)
(***************************************************************************)
EXTENDS Integers, Sequences, FiniteSets, TLC

VARIABLES
    config,      \* the rows handed to Network.add so far, in order
    store,       \* kind -> the Record instance of that kind (its columns)
    components,  \* Network.components: kinds seen, in order of first appearance
    members,     \* Region.Switch / Region.Router / Region.PMU / Region.PDC
    links,       \* Link.links: registered (fr, to) pairs
    obj,         \* Link.obj: the backend handle of each registered pair
    calls,       \* the calls made on the backend (Topo.addSwitch/addHost/addLink)
    log,         \* the log.error messages issued
    pc,          \* the step of the compilation that runs next
    exc,         \* the uncaught exception, "" when none
    runs,        \* how many times setup_by_region has run
    base,        \* the base handed to assign_ip
    lines,       \* the result of make_dump
    reparsed     \* the Network built by adding the dumped rows again

vars == <<config, store, components, members, links, obj, calls, log, pc, exc,
          runs, base, lines, reparsed>>

-----------------------------------------------------------------------------
(* Bounds of the model *)

MaxRows == 3

MaxRuns == 2

-----------------------------------------------------------------------------
(* Python values *)

PyNone == [t |-> "none", s |-> "", i |-> 0]

PyStr(x) == [t |-> "str", s |-> x, i |-> 0]

PyInt(n) == [t |-> "int", s |-> "", i |-> n]

PyFloat(tenths) == [t |-> "float", s |-> "", i |-> tenths]

\* Python truthiness: None, '', 0 and 0.0 are false
Truthy(v) ==
    CASE v.t = "none" -> FALSE
      [] v.t = "str" -> v.s # ""
      [] OTHER -> v.i # 0

\* The decimal strings the model's inputs use, with float()'s value in tenths
FloatTable ==
    [x \in {"1.5", "2", "2.0", "10", "10.0", "0.5"} |->
        CASE x = "1.5" -> 15
          [] x = "2" -> 20
          [] x = "2.0" -> 20
          [] x = "10" -> 100
          [] x = "10.0" -> 100
          [] x = "0.5" -> 5]

\* The integer strings the model's inputs use, with int()'s value
IntTable ==
    [x \in {"0", "3", "03"} |->
        CASE x = "0" -> 0
          [] x = "3" -> 3
          [] x = "03" -> 3]

Ok(v) == [exc |-> "", v |-> v]

Raise(e) == [exc |-> e, v |-> PyNone]

\* float(v)
float(v) ==
    CASE v.t = "none" -> Raise("TypeError")
      [] v.t = "str" -> IF v.s \in DOMAIN FloatTable
                          THEN Ok(PyFloat(FloatTable[v.s]))
                          ELSE Raise("ValueError")
      [] v.t = "int" -> Ok(PyFloat(10 * v.i))
      [] OTHER -> Ok(v)

\* int(v)
int(v) ==
    CASE v.t = "none" -> Raise("TypeError")
      [] v.t = "str" -> IF v.s \in DOMAIN IntTable
                          THEN Ok(PyInt(IntTable[v.s]))
                          ELSE Raise("ValueError")
      [] v.t = "float" -> Ok(PyInt(v.i \div 10))
      [] OTHER -> Ok(v)

\* str(v), as a TLA+ string
str(v) ==
    CASE v.t = "none" -> "None"
      [] v.t = "str" -> v.s
      [] v.t = "int" -> ToString(v.i)
      [] OTHER -> ToString(v.i \div 10) \o "." \o ToString(v.i % 10)

\* v == 'None'
IsNoneString(v) == v.t = "str" /\ v.s = "None"

\* list.index(x): the first position of x, 1-based here; 0 when x is not in the list
RECURSIVE IndexFrom(_, _, _)
IndexFrom(seq, x, k) ==
    IF k > Len(seq) THEN 0
    ELSE IF seq[k] = x THEN k
    ELSE IndexFrom(seq, x, k + 1)

Index(seq, x) == IndexFrom(seq, x, 1)

\* x in list
In(x, seq) == \E k \in 1..Len(seq) : seq[k] = x

-----------------------------------------------------------------------------
(* Record *)

Kinds == <<"Region", "Switch", "PDC", "Router", "PMU", "Link", "HwIntf", "TCHwIntf">>

KindSet == {Kinds[k] : k \in 1..Len(Kinds)}

\* Record.__init__: an empty store of the named kind
NewRecord(kind) ==
    [_name |-> kind, n |-> 0, idx |-> <<>>, name |-> <<>>, coords |-> <<>>,
     mac |-> <<>>, pmu_idx |-> <<>>, delay |-> <<>>, bw |-> <<>>, jitter |-> <<>>,
     loss |-> <<>>, ip |-> <<>>, fr |-> <<>>, to |-> <<>>, region |-> <<>>,
     prefix |-> "", mn_name |-> <<>>, mn_object |-> <<>>]

\* The defaults of Record.add's parameters: what a row that omits a field gets
Defaults ==
    [Type |-> PyNone, Longitude |-> PyNone, Latitude |-> PyNone, MAC |-> PyNone,
     Idx |-> PyNone, Name |-> PyStr(""), Region |-> PyStr(""), IP |-> PyStr(""),
     PMU_IDX |-> PyStr(""), Delay |-> PyStr(""), BW |-> PyStr(""),
     Loss |-> PyStr(""), Jitter |-> PyStr(""), From |-> PyStr(""), To |-> PyStr("")]

\* to_type(var) of Record.add
to_type(var) == IF IsNoneString(var) THEN PyNone ELSE var

\* The id Record.add gives the row: Idx, or <kind>_<n> when Idx is empty
RowIdx(self, Idx) ==
    IF ~Truthy(Idx) THEN PyStr(self._name \o "_" \o ToString(self.n)) ELSE Idx

\* 'PMU Idx <i> conflict.' is logged when the id is already in the store
ConflictLog(self, idx) ==
    IF In(idx, self.idx) THEN <<"conflict">> ELSE <<>>

\* The appends of Record.add, and n += 1
AppendRow(self, item, idx, mac, pmu_idx, lat, lon) ==
    [self EXCEPT
        !.name = Append(@, item.Name),
        !.region = Append(@, item.Region),
        !.coords = Append(@, <<lat, lon>>),
        !.ip = Append(@, item.IP),
        !.mac = Append(@, mac),
        !.idx = Append(@, idx),
        !.pmu_idx = Append(@, pmu_idx),
        !.delay = Append(@, to_type(item.Delay)),
        !.bw = Append(@, to_type(item.BW)),
        !.loss = Append(@, to_type(item.Loss)),
        !.jitter = Append(@, to_type(item.Jitter)),
        !.fr = Append(@, to_type(item.From)),
        !.to = Append(@, to_type(item.To)),
        !.n = @ + 1]

\* Record.add(**item): the store afterwards, what was logged, what was raised
RecordAdd(self, item) ==
    IF item.Type # PyStr(self._name)
    THEN [self |-> self, log |-> <<>>, exc |-> ""]
    ELSE
    LET mac == IF IsNoneString(item.MAC) THEN PyNone ELSE item.MAC
        idx == RowIdx(self, item.Idx)
        pmu == IF IsNoneString(item.PMU_IDX) THEN Ok(PyNone) ELSE int(item.PMU_IDX)
        lat == IF IsNoneString(item.Latitude) THEN Ok(PyNone) ELSE float(item.Latitude)
        lon == IF IsNoneString(item.Longitude) THEN Ok(PyNone) ELSE float(item.Longitude)
    IN  IF pmu.exc # "" THEN [self |-> self, log |-> <<>>, exc |-> pmu.exc]
        ELSE IF lat.exc # ""
        THEN [self |-> self, log |-> ConflictLog(self, idx), exc |-> lat.exc]
        ELSE IF lon.exc # ""
        THEN [self |-> self, log |-> ConflictLog(self, idx), exc |-> lon.exc]
        ELSE [self |-> AppendRow(self, item, idx, mac, pmu.v, lat.v, lon.v),
              log |-> ConflictLog(self, idx), exc |-> ""]

-----------------------------------------------------------------------------
(* Network *)

\* Network.__init__
NewNetwork ==
    [store |-> [k \in KindSet |-> NewRecord(k)], components |-> <<>>]

\* The attributes of a Network instance that are not stores: `components`
\* (set in __init__) and the methods of the class.  hasattr() is true of all.
InstanceAttrs == {"components"}

MethodAttrs ==
    {"add", "setup", "make_dump", "dump_csv", "dump_json", "setup_by_region",
     "build_mn_name", "assign_ip", "add_node_to_mn", "add_link_to_mn",
     "to_canonical", "add_hw_intf", "add_tc_hw_intf", "dump_sw_port_node"}

\* hasattr(self, ty)
HasAttr(ty) == ty.t = "str" /\ ty.s \in KindSet \cup InstanceAttrs \cup MethodAttrs

\* One iteration of the loop of Network.add
NetworkAddItem(net, item) ==
    LET ty == item.Type IN
    IF ~HasAttr(ty)
    THEN [net |-> net, log |-> <<>>, exc |-> ""]
    ELSE IF ty.s \in MethodAttrs
    THEN [net |-> net, log |-> <<>>, exc |-> "KeyError"]
    ELSE IF ty.s \in InstanceAttrs
    THEN [net |-> net, log |-> <<>>, exc |-> "AttributeError"]
    ELSE
    LET r == RecordAdd(net.store[ty.s], item) IN
    IF r.exc # "" THEN [net |-> net, log |-> r.log, exc |-> r.exc]
    ELSE [net |-> [store |-> [net.store EXCEPT ![ty.s] = r.self],
                   components |-> IF In(ty.s, net.components)
                                  THEN net.components
                                  ELSE Append(net.components, ty.s)],
          log |-> r.log, exc |-> ""]


\* The attributes of the Region instance: the columns and fields Record.__init__
\* sets, the four lists Region.build adds, and the methods
RegionAttrs ==
    {"_name", "n", "idx", "name", "coords", "mac", "pmu_idx", "delay", "bw",
     "jitter", "loss", "ip", "fr", "to", "region", "prefix", "connections",
     "mn_name", "mn_object", "Switch", "Router", "PMU", "PDC", "build", "add",
     "lookup_index", "dump", "build_mn_name", "check_consistency",
     "add_node_to_mn", "add_link_to_mn"}

\* Region.build: the member lists Region keeps, one per kind it tracks
Tracked == {"Switch", "Router", "PMU", "PDC"}

\* hasattr(self.Region, item)
RegionHasAttr(item) == item \in RegionAttrs

\* ResetLists as it would be if the lists of the last run were kept
KeepLists(old, n) == [j \in 1..n |-> IF j <= Len(old) THEN old[j] ELSE <<>>]

\* [list() for _ in range(self.Region.n)]: the lists are rebuilt, not kept
ResetLists(old, n) == [j \in 1..n |-> <<>>]

\* The inner loop of setup_by_region over the rows i.. of kind `item`
RECURSIVE RegionRows(_, _, _, _, _)
RegionRows(net, item, lists, i, lg) ==
    LET self == net.store[item]
        Region == net.store["Region"]
    IN  IF i > self.n THEN [lists |-> lists, log |-> lg, exc |-> ""]
        ELSE IF In(self.region[i], Region.idx)
        THEN LET loc == Index(Region.name, self.region[i]) IN
             IF loc = 0
             THEN [lists |-> lists, log |-> lg, exc |-> "ValueError"]
             ELSE RegionRows(net, item,
                             [lists EXCEPT ![loc] = Append(@, self.idx[i])],
                             i + 1, lg)
        ELSE RegionRows(net, item, lists, i + 1, Append(lg, "undefined region"))

\* The outer loop of setup_by_region over components[k..]
RECURSIVE RegionItems(_, _, _, _)
RegionItems(net, mem, k, lg) ==
    IF k > Len(net.components) THEN [members |-> mem, log |-> lg, exc |-> ""]
    ELSE LET item == net.components[k] IN
         IF ~RegionHasAttr(item) THEN RegionItems(net, mem, k + 1, lg)
         ELSE LET r == RegionRows(net, item,
                                  ResetLists(mem[item], net.store["Region"].n),
                                  1, lg)
                  m == [mem EXCEPT ![item] = r.lists]
              IN  IF r.exc # "" THEN [members |-> m, log |-> r.log, exc |-> r.exc]
                  ELSE RegionItems(net, m, k + 1, r.log)

\* Network.setup_by_region
setup_by_region(net, mem) == RegionItems(net, mem, 1, <<>>)

\* Record.build_mn_name, and Switch.build_mn_name: 's' + str(i)
RecordBuildMnName(self) ==
    [self EXCEPT !.mn_name =
        [i \in 1..self.n |->
            IF self._name = "Switch"
            THEN PyStr("s" \o ToString(i - 1))
            ELSE PyStr(self.prefix \o str(self.idx[i]))]]

\* Network.build_mn_name
build_mn_name(net) ==
    [net EXCEPT !.store =
        [k \in KindSet |->
            IF In(k, net.components) THEN RecordBuildMnName(net.store[k])
            ELSE net.store[k]]]

\* count += 1, before the row's address is looked at
NextCount(count) == count + 1

\* The value of count when assign_ip starts
CountStart == 1

\* AssignRows as it would be if a row that has an address were skipped before
\* the counter is advanced
RECURSIVE AssignRowsSkipFirst(_, _, _, _)
AssignRowsSkipFirst(ip, i, count, b) ==
    IF i > Len(ip) THEN [ip |-> ip, count |-> count]
    ELSE IF Truthy(ip[i]) THEN AssignRowsSkipFirst(ip, i + 1, count, b)
    ELSE AssignRowsSkipFirst([ip EXCEPT ![i] = PyStr(b \o ToString(NextCount(count)))],
                             i + 1, NextCount(count), b)

\* One loop of assign_ip over the rows i.. of a store's ip column: the column
\* and the counter afterwards
RECURSIVE AssignRows(_, _, _, _)
AssignRows(ip, i, count, b) ==
    IF i > Len(ip) THEN [ip |-> ip, count |-> count]
    ELSE LET c == NextCount(count) IN
         IF Truthy(ip[i]) THEN AssignRows(ip, i + 1, c, b)
         ELSE AssignRows([ip EXCEPT ![i] = PyStr(b \o ToString(c))], i + 1, c, b)

\* Network.assign_ip(base): the PDC rows, then the PMU rows with the same counter
assign_ip(net, b) ==
    LET pdc == AssignRows(net.store["PDC"].ip, 1, CountStart, b)
        pmu == AssignRows(net.store["PMU"].ip, 1, pdc.count, b)
    IN  [net EXCEPT !.store["PDC"].ip = pdc.ip, !.store["PMU"].ip = pmu.ip]

\* The default of assign_ip's base
DefaultBase == "192.168.1."

\* IsNodeKind as it would be without the check of the kind
IsAnyKind(name) == name \in KindSet

\* The kinds Record.add_node_to_mn creates backend nodes for
IsNodeKind(name) == name \in {"Switch", "Router", "PDC", "PMU"}

\* Record.add_node_to_mn for rows i..: one addSwitch or addHost per row, the
\* handle the backend returns (here the number of the call) kept in mn_object
RECURSIVE NodeRows(_, _, _)
NodeRows(self, i, cs) ==
    IF i > self.n THEN [self |-> self, calls |-> cs]
    ELSE LET call == [op |-> IF self._name = "Switch" THEN "addSwitch" ELSE "addHost",
                      kind |-> self._name, row |-> i,
                      a |-> self.mn_name[i],
                      b |-> IF self._name = "Switch" THEN PyNone ELSE self.ip[i],
                      mac |-> self.mac[i], opts |-> <<>>]
             handle == Len(cs) + 1
         IN  NodeRows([self EXCEPT !.mn_object = Append(@, handle)],
                      i + 1, Append(cs, call))

RecordAddNodeToMn(self, cs) ==
    IF ~IsNodeKind(self._name) THEN [self |-> self, calls |-> cs]
    ELSE NodeRows(self, 1, cs)

\* Network.add_node_to_mn: the stores in the order of components[k..]
RECURSIVE NodeItems(_, _, _)
NodeItems(net, k, cs) ==
    IF k > Len(net.components) THEN [net |-> net, calls |-> cs]
    ELSE LET r == RecordAddNodeToMn(net.store[net.components[k]], cs) IN
         NodeItems([net EXCEPT !.store[net.components[k]] = r.self], k + 1, r.calls)

add_node_to_mn(net, cs) == NodeItems(net, 1, cs)

\* Network.to_canonical(idx)
to_canonical(net, idx) ==
    LET Switch == net.store["Switch"] IN
    IF In(idx, Switch.idx) THEN Switch.mn_name[Index(Switch.idx, idx)] ELSE idx

\* Link.exist_directioned
exist_directioned(lk, fr, to) == In(<<fr, to>>, lk)

\* Link.exist_undirectioned
exist_undirectioned(lk, fr, to) ==
    exist_directioned(lk, fr, to) \/ exist_directioned(lk, to, fr)

\* Link.add_link_to_mn for rows i..: the registry, the handles, the calls and
\* what was raised
RECURSIVE LinkRows(_, _, _, _, _)
LinkRows(net, i, lk, ob, cs) ==
    LET self == net.store["Link"] IN
    IF i > self.n THEN [links |-> lk, obj |-> ob, calls |-> cs, exc |-> ""]
    ELSE
    LET fr == to_canonical(net, self.fr[i])
        to == to_canonical(net, self.to[i])
        b == IF self.bw[i] # PyNone THEN float(self.bw[i]) ELSE Ok(PyNone)
        l == IF Truthy(self.loss[i]) THEN float(self.loss[i]) ELSE Ok(PyNone)
        j == IF self.jitter[i] # PyNone THEN float(self.jitter[i]) ELSE Ok(PyNone)
        stop(e) == [links |-> lk, obj |-> ob, calls |-> cs, exc |-> e]
    IN  IF b.exc # "" THEN stop(b.exc)
        ELSE IF l.exc # "" THEN stop(l.exc)
        ELSE IF j.exc # "" THEN stop(j.exc)
        ELSE IF ~exist_undirectioned(lk, fr, to)
        THEN LET call == [op |-> "addLink", kind |-> "Link", row |-> i,
                          a |-> fr, b |-> to, mac |-> PyNone,
                          opts |-> <<self.delay[i], b.v, l.v, j.v>>]
             IN  LinkRows(net, i + 1, Append(lk, <<fr, to>>),
                          Append(ob, Len(cs) + 1), Append(cs, call))
        ELSE LinkRows(net, i + 1, lk, ob, cs)

\* Network.add_link_to_mn: only the Link store's add_link_to_mn does anything
add_link_to_mn(net, lk, ob, cs) ==
    IF In("Link", net.components) THEN LinkRows(net, 1, lk, ob, cs)
    ELSE [links |-> lk, obj |-> ob, calls |-> cs, exc |-> ""]

-----------------------------------------------------------------------------
(* Serializer *)

\* The header of make_dump
Header ==
    <<"Idx", "Type", "Region", "Name", "Longitude", "Latitude", "MAC", "IP",
      "PMU_IDX", "From", "To", "Delay", "BW", "Loss", "Jitter">>

\* x if x else 'None'
OrNone(x) == IF Truthy(x) THEN x ELSE PyStr("None")

\* The line Record.dump builds for row i
DumpLine(self, i) ==
    <<self.idx[i],
      PyStr(self._name),
      self.region[i],
      self.name[i],
      PyStr(str(self.coords[i][2])),
      PyStr(str(self.coords[i][1])),
      OrNone(self.mac[i]),
      OrNone(self.ip[i]),
      OrNone(self.pmu_idx[i]),
      IF Truthy(self.pmu_idx[i]) THEN self.delay[i] ELSE PyStr("None"),
      OrNone(self.bw[i]),
      OrNone(self.loss[i]),
      OrNone(self.jitter[i])>>

\* Record.dump
RecordDump(self) == [i \in 1..self.n |-> DumpLine(self, i)]

\* The data lines of Network.make_dump: the dumps of components[k..] in order
RECURSIVE DumpItems(_, _)
DumpItems(net, k) ==
    IF k > Len(net.components) THEN <<>>
    ELSE RecordDump(net.store[net.components[k]]) \o DumpItems(net, k + 1)

\* Network.make_dump, without the header line (Header)
make_dump(net) == DumpItems(net, 1)

\* zip(header, line) as a row of declarative input, as dump_json pairs them:
\* a field the line is too short for is omitted, and takes Record.add's default
ZipRow(line) ==
    [f \in DOMAIN Defaults |->
        IF \E k \in 1..Len(line) : k <= Len(Header) /\ Header[k] = f
        THEN line[CHOOSE k \in 1..Len(line) : Header[k] = f]
        ELSE Defaults[f]]

\* Network.add(config) on a new Network, for the rows k.. of the dump
RECURSIVE AddAll(_, _, _)
AddAll(net, rows, k) ==
    IF k > Len(rows) THEN [net |-> net, exc |-> ""]
    ELSE LET r == NetworkAddItem(net, ZipRow(rows[k])) IN
         IF r.exc # "" THEN [net |-> r.net, exc |-> r.exc]
         ELSE AddAll(r.net, rows, k + 1)

-----------------------------------------------------------------------------
(* The state machine *)

Net == [store |-> store, components |-> components]

Init ==
    /\ config = <<>>
    /\ store = NewNetwork.store
    /\ components = NewNetwork.components
    /\ members = [k \in Tracked |-> <<>>]
    /\ links = <<>>
    /\ obj = <<>>
    /\ calls = <<>>
    /\ log = <<>>
    /\ pc = "add"
    /\ exc = ""
    /\ runs = 0
    /\ base = ""
    /\ lines = <<>>
    /\ reparsed = [net |-> NewNetwork, exc |-> ""]

\* Network.add([item]) for a row of D, while fewer than max rows were handed in
NetworkAdd(D, max) ==
    /\ pc = "add" /\ exc = ""
    /\ Len(config) < max
    /\ \E item \in D :
         LET r == NetworkAddItem(Net, item) IN
         /\ config' = Append(config, item)
         /\ store' = r.net.store
         /\ components' = r.net.components
         /\ log' = log \o r.log
         /\ exc' = r.exc
    /\ UNCHANGED <<members, links, obj, calls, pc, runs, base, lines, reparsed>>

\* Network.setup_by_region, the second step of Network.setup
SetupByRegion ==
    /\ pc = "add" /\ exc = ""
    /\ LET r == setup_by_region(Net, members) IN
         /\ members' = r.members
         /\ log' = log \o r.log
         /\ exc' = r.exc
    /\ pc' = "setup_by_region"
    /\ runs' = 1
    /\ UNCHANGED <<config, store, components, links, obj, calls, base, lines, reparsed>>

\* Network.setup_by_region called again on the unchanged model
SetupByRegionAgain ==
    /\ pc = "setup_by_region" /\ exc = ""
    /\ runs < MaxRuns
    /\ LET r == setup_by_region(Net, members) IN
         /\ members' = r.members
         /\ log' = log \o r.log
         /\ exc' = r.exc
    /\ runs' = runs + 1
    /\ UNCHANGED <<config, store, components, links, obj, calls, pc, base, lines, reparsed>>

\* Network.build_mn_name
BuildMnName ==
    /\ pc = "setup_by_region" /\ exc = ""
    /\ store' = build_mn_name(Net).store
    /\ pc' = "build_mn_name"
    /\ UNCHANGED <<config, components, members, links, obj, calls, log, exc, runs,
                   base, lines, reparsed>>

\* Network.assign_ip(), as Network.setup calls it
AssignIp ==
    /\ pc = "build_mn_name" /\ exc = ""
    /\ base' = DefaultBase
    /\ store' = assign_ip(Net, DefaultBase).store
    /\ pc' = "assign_ip"
    /\ UNCHANGED <<config, components, members, links, obj, calls, log, exc, runs,
                   lines, reparsed>>

\* Network.assign_ip(base) called with a base of the caller's
AssignIpBase(B) ==
    /\ pc = "build_mn_name" /\ exc = ""
    /\ \E b \in B :
         /\ base' = b
         /\ store' = assign_ip(Net, b).store
    /\ pc' = "assign_ip"
    /\ UNCHANGED <<config, components, members, links, obj, calls, log, exc, runs,
                   lines, reparsed>>

\* Network.add_node_to_mn
AddNodeToMn ==
    /\ pc = "assign_ip" /\ exc = ""
    /\ LET r == add_node_to_mn(Net, calls) IN
         /\ store' = r.net.store
         /\ calls' = r.calls
    /\ pc' = "add_node_to_mn"
    /\ UNCHANGED <<config, components, members, links, obj, log, exc, runs, base,
                   lines, reparsed>>

\* Network.add_link_to_mn, the last step of Network.setup
AddLinkToMn ==
    /\ pc = "add_node_to_mn" /\ exc = ""
    /\ LET r == add_link_to_mn(Net, links, obj, calls) IN
         /\ links' = r.links
         /\ obj' = r.obj
         /\ calls' = r.calls
         /\ exc' = r.exc
    /\ pc' = "add_link_to_mn"
    /\ UNCHANGED <<config, store, components, members, log, runs, base, lines, reparsed>>

\* Network.make_dump on the compiled model
MakeDump ==
    /\ pc = "add_link_to_mn" /\ exc = ""
    /\ lines' = make_dump(Net)
    /\ pc' = "make_dump"
    /\ UNCHANGED <<config, store, components, members, links, obj, calls, log, exc,
                   runs, base, reparsed>>

\* The dumped rows read back through the header and added to a new Network
Reparse ==
    /\ pc = "make_dump" /\ exc = ""
    /\ reparsed' = AddAll(NewNetwork, lines, 1)
    /\ pc' = "reparse"
    /\ UNCHANGED <<config, store, components, members, links, obj, calls, log, exc,
                   runs, base, lines>>

-----------------------------------------------------------------------------
(* The rows the model hands to Network.add *)

\* A row as the project's CSV files write it: every column present, the
\* literal None in the columns that do not apply
CsvRow(ty, idx) ==
    [Type |-> PyStr(ty), Idx |-> PyStr(idx), Name |-> PyStr(""), Region |-> PyStr(""),
     Longitude |-> PyStr("None"), Latitude |-> PyStr("None"), MAC |-> PyStr("None"),
     IP |-> PyStr(""), PMU_IDX |-> PyStr("None"), From |-> PyStr("None"),
     To |-> PyStr("None"), Delay |-> PyStr("None"), BW |-> PyStr("None"),
     Loss |-> PyStr("None"), Jitter |-> PyStr("None")]

\* A row that gives only its Type and Idx: the other fields take the defaults
BareRow(ty, idx) == [Defaults EXCEPT !.Type = PyStr(ty), !.Idx = PyStr(idx)]

InRegion(row, name, region) ==
    [row EXCEPT !.Name = PyStr(name), !.Region = PyStr(region)]

WithIP(row, ip) == [row EXCEPT !.IP = PyStr(ip)]

FromTo(row, fr, to) == [row EXCEPT !.From = PyStr(fr), !.To = PyStr(to)]

\* Rows for one store: explicit and derived ids, well and badly formed numbers,
\* and Types that name no store
RowsAdd ==
    {CsvRow("Switch", "x"),
     CsvRow("Switch", ""),
     CsvRow("Switch", "y"),
     [CsvRow("Switch", "x") EXCEPT !.Latitude = PyStr("abc")],
     [CsvRow("Switch", "z") EXCEPT !.Latitude = PyStr("1.5"), !.Longitude = PyStr("2")],
     [CsvRow("PMU", "x") EXCEPT !.PMU_IDX = PyStr("3")],
     BareRow("Switch", "x"),
     CsvRow("Foo", "x"),
     CsvRow("components", "x")}

\* Regions whose name is or is not their id, and rows in known and unknown regions
RowsRegion ==
    {InRegion(CsvRow("Region", "r1"), "r1", ""),
     InRegion(CsvRow("Region", "r1"), "r2", ""),
     InRegion(CsvRow("Region", "r2"), "r1", ""),
     InRegion(CsvRow("Switch", "a"), "", "r1"),
     InRegion(CsvRow("Switch", "b"), "", "r2"),
     InRegion(CsvRow("Switch", "c"), "", "zz"),
     InRegion([CsvRow("PMU", "p") EXCEPT !.PMU_IDX = PyStr("3")], "", "r1")}

\* PDC and PMU rows with and without an address of their own
RowsIP ==
    {CsvRow("PDC", ""),
     WithIP(CsvRow("PDC", ""), "10.0.0.9"),
     [CsvRow("PMU", "") EXCEPT !.PMU_IDX = PyStr("3")],
     WithIP([CsvRow("PMU", "") EXCEPT !.PMU_IDX = PyStr("3")], "10.0.0.9"),
     WithIP([CsvRow("PMU", "") EXCEPT !.PMU_IDX = PyStr("3")], "None")}

\* The bases handed to assign_ip
Bases == {DefaultBase, "10.0.0."}

\* Switches and links between them, in both directions, by id and by canonical
\* name, with and without shaping parameters
RowsLink ==
    {CsvRow("Switch", "a"),
     CsvRow("Switch", "b"),
     FromTo(CsvRow("Link", ""), "a", "b"),
     FromTo(CsvRow("Link", ""), "b", "a"),
     FromTo(CsvRow("Link", ""), "s0", "b"),
     [FromTo(CsvRow("Link", ""), "a", "h") EXCEPT
         !.BW = PyStr("10"), !.Loss = PyStr("0.5"), !.Delay = PyStr("5ms")],
     [FromTo(CsvRow("Link", ""), "a", "b") EXCEPT !.BW = PyStr("")]}

\* One or two rows of every kind, a link without a bandwidth, and a row that
\* gives only its Type and Idx
RowsFull ==
    {InRegion(CsvRow("Region", "r1"), "r1", ""),
     InRegion(CsvRow("Switch", "a"), "sw-a", "r1"),
     CsvRow("Switch", "b"),
     CsvRow("Router", "rt"),
     CsvRow("PDC", "d"),
     InRegion([CsvRow("PMU", "p") EXCEPT !.PMU_IDX = PyStr("3")], "", "r1"),
     FromTo(CsvRow("Link", ""), "a", "b"),
     [FromTo(CsvRow("Link", ""), "b", "rt") EXCEPT !.BW = PyStr("")],
     BareRow("Router", "r2"),
     FromTo(CsvRow("HwIntf", "eth1"), "None", "a"),
     [FromTo(CsvRow("TCHwIntf", "eth2"), "None", "b") EXCEPT !.BW = PyStr("10")]}

\* SpecIP hands in up to this many rows
MaxIpRows == 5

-----------------------------------------------------------------------------
(* Specifications *)

\* Network.setup on a configuration of every kind, then a dump and its re-parse
Next ==
    \/ NetworkAdd(RowsFull, MaxRows)
    \/ SetupByRegion
    \/ BuildMnName
    \/ AssignIp
    \/ AddNodeToMn
    \/ AddLinkToMn
    \/ MakeDump
    \/ Reparse

Spec == Init /\ [][Next]_vars

\* Network.add alone
NextAdd == NetworkAdd(RowsAdd, MaxRows)

SpecAdd == Init /\ [][NextAdd]_vars

\* Ingestion, then region resolution, once or more
NextRegion ==
    \/ NetworkAdd(RowsRegion, MaxRows)
    \/ SetupByRegion
    \/ SetupByRegionAgain

SpecRegion == Init /\ [][NextRegion]_vars

\* Ingestion of PDC and PMU rows, then address assignment with a given base
NextIP ==
    \/ NetworkAdd(RowsIP, MaxIpRows)
    \/ SetupByRegion
    \/ BuildMnName
    \/ AssignIpBase(Bases)

SpecIP == Init /\ [][NextIP]_vars

\* Network.setup on switches and links
NextLink ==
    \/ NetworkAdd(RowsLink, MaxRows)
    \/ SetupByRegion
    \/ BuildMnName
    \/ AssignIp
    \/ AddNodeToMn
    \/ AddLinkToMn

SpecLink == Init /\ [][NextLink]_vars

-----------------------------------------------------------------------------
(* What the properties are stated over *)

\* The rows of the configuration whose Type is `kind`, in order
RowsOf(kind) == SelectSeq(config, LAMBDA r : r.Type = PyStr(kind))

\* The positions of the backend calls that create a node
NodeCallPos == {p \in 1..Len(calls) : calls[p].op # "addLink"}

LinkCallPos == {p \in 1..Len(calls) : calls[p].op = "addLink"}

\* Where a kind first appears in the configuration
FirstRow(kind) ==
    CHOOSE i \in 1..Len(config) :
        /\ config[i].Type = PyStr(kind)
        /\ \A j \in 1..(i - 1) : config[j].Type # PyStr(kind)

NodesDone == pc \in {"add_node_to_mn", "add_link_to_mn", "make_dump", "reparse"}

-----------------------------------------------------------------------------
\* The address a PDC or PMU row is to have when k rows stand before it
C2_Expected(row, k) ==
    IF Truthy(row.IP) THEN row.IP ELSE PyStr(base \o ToString(k + 2))

(* C2: after assign_ip(base), the PDC row at position i (from 0) that had no    *)
(* address has base + str(i + 2), the PMU row at position j that had none has  *)
(* base + str(nPDC + j + 2), and a row that had an address keeps it; 2 PDCs    *)
(* and 3 PMUs, none with an address, base "10.0.0.", get 10.0.0.2 .. 10.0.0.6. *)

C2_AddressSequencing ==
    pc = "assign_ip" =>
        LET pdc == RowsOf("PDC")
            pmu == RowsOf("PMU")
        IN  /\ store["PDC"].ip = [i \in 1..Len(pdc) |-> C2_Expected(pdc[i], i - 1)]
            /\ store["PMU"].ip =
                   [j \in 1..Len(pmu) |-> C2_Expected(pmu[j], Len(pdc) + j - 1)]
            /\ (/\ base = "10.0.0."
                /\ Len(pdc) = 2 /\ Len(pmu) = 3
                /\ \A i \in 1..Len(config) : ~Truthy(config[i].IP))
               => /\ store["PDC"].ip = <<PyStr("10.0.0.2"), PyStr("10.0.0.3")>>
                  /\ store["PMU"].ip =
                       <<PyStr("10.0.0.4"), PyStr("10.0.0.5"), PyStr("10.0.0.6")>>

\* 2 PDCs and 3 PMUs, none with an address, were assigned from "10.0.0."
C2_Witness ==
    /\ pc = "assign_ip"
    /\ base = "10.0.0."
    /\ store["PDC"].n = 2 /\ store["PMU"].n = 3
    /\ \A i \in 1..Len(config) : ~Truthy(config[i].IP)

\* A PDC with an address of its own stands before rows that were assigned one
C2_KeptAddress ==
    /\ pc = "assign_ip"
    /\ store["PDC"].ip = <<PyStr("10.0.0.9"), PyStr(base \o "3")>>
    /\ store["PMU"].ip = <<PyStr(base \o "4")>>

-----------------------------------------------------------------------------
(* C4: a second run of setup_by_region on the unchanged model leaves every     *)
(* member list of Region as the first run left it.                             *)

C4_RegionIdempotent ==
    [][(runs >= 1 /\ runs' = runs + 1) => members' = members]_vars

\* Region resolution ran twice and some region has a member
C4_Witness ==
    /\ runs = 2
    /\ \E k \in Tracked : \E p \in 1..Len(members[k]) : members[k][p] # <<>>

-----------------------------------------------------------------------------
(* C9: every node-creation call comes before every addLink; node creations go  *)
(* by the order in which the kinds first appeared, then by row; once           *)
(* add_node_to_mn has run, each Switch, Router, PDC and PMU row has exactly    *)
(* one node and one handle, and no other row has any.                          *)

C9_MaterializationOrder ==
    /\ \A p \in LinkCallPos : \A q \in NodeCallPos : q < p
    /\ \A p, q \in NodeCallPos :
         p < q => \/ FirstRow(calls[p].kind) < FirstRow(calls[q].kind)
                  \/ calls[p].kind = calls[q].kind /\ calls[p].row < calls[q].row
    /\ NodesDone =>
         \A k \in KindSet :
            LET mine == {p \in NodeCallPos : calls[p].kind = k} IN
            IF k \in {"Switch", "Router", "PDC", "PMU"}
            THEN /\ store[k].n = Len(RowsOf(k))
                 /\ Len(store[k].mn_object) = store[k].n
                 /\ \A i \in 1..store[k].n :
                      /\ Cardinality({p \in mine : calls[p].row = i}) = 1
                      /\ store[k].mn_object[i] \in mine
                      /\ calls[store[k].mn_object[i]].row = i
                      /\ calls[store[k].mn_object[i]].a = store[k].mn_name[i]
                      /\ calls[store[k].mn_object[i]].op =
                            IF k = "Switch" THEN "addSwitch" ELSE "addHost"
                 /\ Cardinality(mine) = store[k].n
            ELSE mine = {} /\ store[k].mn_object = <<>>

\* A PMU declared before a switch, and a link: one host, one switch, one link
C9_Witness ==
    /\ pc = "add_link_to_mn" /\ exc = ""
    /\ components = <<"PMU", "Switch", "Link">>
    /\ [p \in 1..Len(calls) |-> calls[p].op] = <<"addHost", "addSwitch", "addLink">>

-----------------------------------------------------------------------------
\* The distinct unordered pairs of canonical endpoints of the Link rows
C1_Pairs ==
    {{to_canonical(Net, store["Link"].fr[i]), to_canonical(Net, store["Link"].to[i])} :
        i \in 1..store["Link"].n}

\* One addLink call and one registry entry for each pair, no pair twice
C1_Registered ==
    /\ Cardinality(LinkCallPos) = Cardinality(C1_Pairs)
    /\ Len(links) = Cardinality(C1_Pairs)
    /\ \A p, q \in 1..Len(links) :
         p # q => {links[p][1], links[p][2]} # {links[q][1], links[q][2]}

(* C1: when add_link_to_mn has ended, addLink was called once for each         *)
(* distinct unordered pair of canonical endpoints among the Link rows, the     *)
(* registry holds one entry for each, and never both (a, b) and (b, a).        *)

C1_LinkDedup == pc = "add_link_to_mn" => C1_Registered

\* C1 restricted to the runs in which add_link_to_mn returned
C1_DedupWhenReturned == (pc = "add_link_to_mn" /\ exc = "") => C1_Registered

-----------------------------------------------------------------------------
\* The rows of kind k whose region is no id of the Region store
C3_Unresolved(k) ==
    {i \in 1..store[k].n : ~In(store[k].region[i], store["Region"].idx)}

\* The number of entries of the lists p.. together
RECURSIVE TotalLen(_, _)
TotalLen(lists, p) ==
    IF p > Len(lists) THEN 0 ELSE Len(lists[p]) + TotalLen(lists, p + 1)

(* C3: a row of a kind Region tracks whose region is not an id of the Region   *)
(* store stays in its store, adds to no member list, and setup_by_region ends  *)
(* without an exception.                                                       *)

C3_UnresolvableNonFatal ==
    \A k \in Tracked :
        (pc = "setup_by_region" /\ C3_Unresolved(k) # {}) =>
            /\ exc = ""
            /\ store[k].n = Len(RowsOf(k))
            /\ TotalLen(members[k], 1) = store[k].n - Cardinality(C3_Unresolved(k))

-----------------------------------------------------------------------------
(* C10: after setup_by_region, the member list at a Region row's position      *)
(* holds, in store order, the ids of exactly the rows whose region is that     *)
(* Region row's id, whatever the Region rows' names are.                       *)

C10_RegionMembership ==
    LET Region == store["Region"] IN
    (/\ pc = "setup_by_region" /\ exc = ""
     /\ \A p, q \in 1..Region.n : p # q => Region.idx[p] # Region.idx[q])
    => \A k \in Tracked :
          In(k, components) =>
             members[k] =
                [p \in 1..Region.n |->
                    LET at == SelectSeq([i \in 1..store[k].n |-> i],
                                        LAMBDA i : store[k].region[i] = Region.idx[p])
                    IN  [j \in 1..Len(at) |-> store[k].idx[at[j]]]]

-----------------------------------------------------------------------------
(* C5: the rows make_dump gives, read back through the header and added to a   *)
(* new Network, give stores with the same ids, regions and addresses, row by   *)
(* row, as the compiled model.                                                 *)

C5_RoundTrip ==
    pc = "reparse" =>
        /\ reparsed.exc = ""
        /\ reparsed.net.components = components
        /\ \A k \in KindSet :
              /\ reparsed.net.store[k].idx = store[k].idx
              /\ reparsed.net.store[k].region = store[k].region
              /\ reparsed.net.store[k].ip = store[k].ip

\* C5 restricted to the ids and regions of every store and the addresses of
\* the PDC and PMU stores, the two that assign_ip resolves
C5_IdsRegionsResolved ==
    pc = "reparse" =>
        /\ reparsed.exc = ""
        /\ reparsed.net.components = components
        /\ \A k \in KindSet :
              /\ reparsed.net.store[k].idx = store[k].idx
              /\ reparsed.net.store[k].region = store[k].region
              /\ k \in {"PDC", "PMU"} => reparsed.net.store[k].ip = store[k].ip

-----------------------------------------------------------------------------
\* The id the i-th row of the configuration is to get
C6_Id(i) ==
    LET earlier == {j \in 1..(i - 1) : config[j].Type = config[i].Type} IN
    IF Truthy(config[i].Idx) THEN config[i].Idx
    ELSE PyStr(config[i].Type.s \o "_" \o ToString(Cardinality(earlier)))

\* The rows whose id an earlier row of the same store has
C6_Conflicts ==
    {i \in 1..Len(config) :
        /\ config[i].Type.s \in KindSet
        /\ \E j \in 1..(i - 1) :
              config[j].Type = config[i].Type /\ C6_Id(j) = C6_Id(i)}

(* C6: every add whose Type names a store appends one row, and reports one     *)
(* conflict exactly when the row's id is already in the store.                 *)

C6_SoftIdConflict ==
    pc = "add" =>
        /\ \A k \in KindSet : store[k].n = Len(RowsOf(k))
        /\ \A k \in KindSet : store[k].idx =
              LET at == SelectSeq([i \in 1..Len(config) |-> i],
                                  LAMBDA i : config[i].Type = PyStr(k))
              IN  [j \in 1..Len(at) |-> C6_Id(at[j])]
        /\ Len(log) = Cardinality(C6_Conflicts)

\* C6 restricted to the runs in which no add raised
C6_WhenNoAddRaised == (pc = "add" /\ exc = "") => C6_SoftIdConflict

-----------------------------------------------------------------------------
\* A coordinate that is given and does not parse as a float
C7_Malformed(v) == v.t = "str" /\ v.s # "None" /\ v.s \notin DOMAIN FloatTable

(* C7: an add whose Latitude or Longitude is given and is not a number reports *)
(* an error, appends the row with that coordinate absent, and does not raise.  *)

C7_MalformedCoordinate ==
    (/\ pc = "add" /\ Len(config) > 0
     /\ config[Len(config)].Type.s \in KindSet
     /\ \/ C7_Malformed(config[Len(config)].Latitude)
        \/ C7_Malformed(config[Len(config)].Longitude))
    => LET item == config[Len(config)]
           self == store[item.Type.s]
       IN  /\ exc = ""
           /\ self.n = Len(RowsOf(item.Type.s))
           /\ self.n > 0
           /\ C7_Malformed(item.Latitude) => self.coords[self.n][1] = PyNone
           /\ C7_Malformed(item.Longitude) => self.coords[self.n][2] = PyNone
           /\ log # <<>>

-----------------------------------------------------------------------------
(* C8: a row whose Type is none of the eight kinds changes no store and not    *)
(* the list of kinds seen, and raises nothing.                                 *)

C8_UnrecognizedKindIgnored ==
    [][(/\ Len(config') = Len(config) + 1
        /\ config'[Len(config')].Type.s \notin KindSet)
       => (exc' = "" /\ store' = store /\ components' = components /\ log' = log)]_vars

\* C8 restricted to the Types that are no attribute of the Network at all
C8_NonAttributeIgnored ==
    [][(/\ Len(config') = Len(config) + 1
        /\ ~HasAttr(config'[Len(config')].Type))
       => (exc' = "" /\ store' = store /\ components' = components /\ log' = log)]_vars

=============================================================================
